---- MODULE Spec2Model ----
(***************************************************************************)
(* DailyUpdate: a mailing-list service.  The model covers the subscriber   *)
(* store and delivery log (models.py), the subscribe / unsubscribe / manual *)
(* trigger routes (routes.py), the Article Source (news_service.py) and the *)
(* scheduled batch run (scheduler_service.py).                              *)
(***************************************************************************)
EXTENDS Integers, Sequences, FiniteSets, TLC

\* ------------------------------------------------------------------ bounds
\* longest provider article list explored over the core candidates
MaxArticles == 7
\* longest provider article list explored over every candidate
MaxShort == 2

\* ------------------------------------------------- news_service.py (pure)
\* news_data[:5]
TopN == 5
\* len(description) > 250
DescLimit == 250
\* description[:247]
DescKeep == 247

\* '...'
Ellipsis == <<".", ".", ".">>

\* title of an article the provider has removed
RemovedTitle == "[Removed]"

\* NewsService.get_fallback_news: the hard-coded list, descriptions as
\* character sequences
get_fallback_news ==
  <<
    [title |-> "Latest Developments in Artificial Intelligence Research",
     url |-> "https://www.nature.com/subjects/machine-learning",
     description |-> <<"S","t","a","y"," ","u","p","d","a","t","e","d"," ","w","i","t","h"," ","c","u","t","t","i","n","g","-","e","d","g","e"," ","r","e","s","e","a","r","c","h"," ","i","n"," ","A","I"," ","a","n","d"," ","m","a","c","h","i","n","e"," ","l","e","a","r","n","i","n","g"," ","f","r","o","m"," ","l","e","a","d","i","n","g"," ","s","c","i","e","n","t","i","f","i","c"," ","j","o","u","r","n","a","l","s"," ","a","n","d"," ","i","n","s","t","i","t","u","t","i","o","n","s"," ","w","o","r","l","d","w","i","d","e",".">>],
    [title |-> "AI Industry Trends and Market Analysis",
     url |-> "https://www.mckinsey.com/capabilities/quantumblack/our-insights",
     description |-> <<"C","o","m","p","r","e","h","e","n","s","i","v","e"," ","a","n","a","l","y","s","i","s"," ","o","f"," ","A","I"," ","a","d","o","p","t","i","o","n"," ","t","r","e","n","d","s",","," ","m","a","r","k","e","t"," ","o","p","p","o","r","t","u","n","i","t","i","e","s",","," ","a","n","d"," ","b","u","s","i","n","e","s","s"," ","t","r","a","n","s","f","o","r","m","a","t","i","o","n"," ","s","t","r","a","t","e","g","i","e","s"," ","a","c","r","o","s","s"," ","i","n","d","u","s","t","r","i","e","s",".">>],
    [title |-> "OpenAI and AI Safety Research Updates",
     url |-> "https://openai.com/research",
     description |-> <<"L","a","t","e","s","t"," ","r","e","s","e","a","r","c","h"," ","p","u","b","l","i","c","a","t","i","o","n","s"," ","a","n","d"," ","s","a","f","e","t","y"," ","d","e","v","e","l","o","p","m","e","n","t","s"," ","f","r","o","m"," ","O","p","e","n","A","I"," ","a","n","d"," ","o","t","h","e","r"," ","l","e","a","d","i","n","g"," ","A","I"," ","r","e","s","e","a","r","c","h"," ","o","r","g","a","n","i","z","a","t","i","o","n","s",".">>],
    [title |-> "Machine Learning Tools and Frameworks",
     url |-> "https://github.com/topics/machine-learning",
     description |-> <<"D","i","s","c","o","v","e","r"," ","n","e","w"," ","t","o","o","l","s",","," ","l","i","b","r","a","r","i","e","s",","," ","a","n","d"," ","f","r","a","m","e","w","o","r","k","s"," ","t","h","a","t"," ","a","r","e"," ","s","h","a","p","i","n","g"," ","t","h","e"," ","f","u","t","u","r","e"," ","o","f"," ","m","a","c","h","i","n","e"," ","l","e","a","r","n","i","n","g"," ","d","e","v","e","l","o","p","m","e","n","t",".">>],
    [title |-> "AI Ethics and Responsible AI Development",
     url |-> "https://www.partnershiponai.org",
     description |-> <<"I","m","p","o","r","t","a","n","t"," ","d","i","s","c","u","s","s","i","o","n","s"," ","o","n"," ","A","I"," ","e","t","h","i","c","s",","," ","b","i","a","s"," ","m","i","t","i","g","a","t","i","o","n",","," ","a","n","d"," ","r","e","s","p","o","n","s","i","b","l","e"," ","d","e","v","e","l","o","p","m","e","n","t"," ","p","r","a","c","t","i","c","e","s"," ","i","n"," ","a","r","t","i","f","i","c","i","a","l"," ","i","n","t","e","l","l","i","g","e","n","c","e",".">>]
  >>

\* a description of n characters whose characters differ by position
Text(n) == [i \in 1..n |-> IF i % 3 = 0 THEN "c" ELSE IF i % 3 = 1 THEN "a" ELSE "b"]

\* a truncation that keeps 250 characters before the ellipsis
truncate_description_253(description) ==
  IF Len(description) > DescLimit
    THEN SubSeq(description, 1, DescLimit) \o Ellipsis
    ELSE description

\* NewsService._truncate_description
truncate_description(description) ==
  IF Len(description) > DescLimit
    THEN SubSeq(description, 1, DescKeep) \o Ellipsis
    ELSE description

\* the filter of fetch_ai_news (lines 36-39); a missing key or a null value
\* is the empty value: article.get(k) is falsy in both cases
Qualifies(article) ==
  /\ article.title # ""
  /\ article.url # ""
  /\ article.description # <<>>
  /\ article.title # RemovedTitle

\* the loop of fetch_ai_news (lines 34-45): news_data after the articles
\* from position i on have been visited
RECURSIVE CollectNews(_, _, _)
CollectNews(articles, i, news_data) ==
  IF i > Len(articles) THEN news_data
  ELSE CollectNews(articles, i + 1,
         IF Qualifies(articles[i])
           THEN Append(news_data,
                  [title |-> articles[i].title,
                   url |-> articles[i].url,
                   description |-> truncate_description(articles[i].description)])
           ELSE news_data)

\* news_data[:5]
TopSlice(news_data) ==
  IF Len(news_data) > TopN THEN SubSeq(news_data, 1, TopN) ELSE news_data

\* kinds of provider response on which requests.get or raise_for_status
\* raises requests.RequestException (line 50)
RequestFailures == {"connection_error", "timeout", "http_error"}

\* kinds of response body on which the code after the call raises
\* (line 53): response.json() fails, data is not an object (data.get),
\* 'articles' is null (iteration)
BodyFailures == {"bad_json", "not_object", "null_articles"}

\* every kind of provider response
ResponseKinds == RequestFailures \cup BodyFailures \cup {"no_articles_key", "ok"}

\* NewsService.fetch_ai_news on a provider response
\* resp = [api_key, kind, articles]; an article that is not an object has
\* is_dict = FALSE and makes article.get raise inside the loop
fetch_ai_news(resp) ==
  IF ~resp.api_key THEN get_fallback_news
  ELSE IF resp.kind \in RequestFailures THEN get_fallback_news
  ELSE IF resp.kind \in BodyFailures THEN get_fallback_news
  ELSE IF resp.kind = "no_articles_key" THEN <<>>
  ELSE IF \E i \in 1..Len(resp.articles) : ~resp.articles[i].is_dict
         THEN get_fallback_news
  ELSE TopSlice(CollectNews(resp.articles, 1, <<>>))

\* ------------------------------------------ provider responses explored
Article(t, u, d) == [is_dict |-> TRUE, title |-> t, url |-> u, description |-> d]

CoreCandidates ==
  { Article("T1", "u1", Text(3)),
    Article("T2", "u2", Text(DescLimit + 1)),
    Article(RemovedTitle, "u3", Text(4)),
    Article("", "u4", Text(5)) }

AllCandidates ==
  CoreCandidates \cup
  { Article("T5", "u5", Text(DescLimit)),
    Article("T6", "", Text(6)),
    Article("T7", "u7", <<>>),
    Article("T8", "u8", Text(DescLimit + 40)),
    [is_dict |-> FALSE, title |-> "", url |-> "", description |-> <<>>] }

SeqsUpTo(S, n) == UNION { [1..k -> S] : k \in 0..n }

ProviderArticles == SeqsUpTo(CoreCandidates, MaxArticles) \cup SeqsUpTo(AllCandidates, MaxShort)

ProviderResponses ==
  { [api_key |-> TRUE, kind |-> "ok", articles |-> a] : a \in ProviderArticles }
  \cup { [api_key |-> TRUE, kind |-> k, articles |-> <<>>] : k \in ResponseKinds \ {"ok"} }
  \cup { [api_key |-> FALSE, kind |-> "ok", articles |-> <<>>] }

\* provider responses explored by a batch run
RunResponses ==
  { [api_key |-> FALSE, kind |-> "ok", articles |-> <<>>],
    [api_key |-> TRUE, kind |-> "timeout", articles |-> <<>>],
    [api_key |-> TRUE, kind |-> "no_articles_key", articles |-> <<>>],
    [api_key |-> TRUE, kind |-> "ok", articles |-> <<Article(RemovedTitle, "u3", Text(4))>>],
    [api_key |-> TRUE, kind |-> "ok",
     articles |-> <<Article("T1", "u1", Text(3)), Article("T2", "u2", Text(DescLimit + 1))>>] }

\* ------------------------------------------------------------------ bounds
\* number of distinct addresses that visitors submit
NumAddr == 2
\* last value of the clock
MaxTime == 2
\* number of firings of the daily trigger explored
MaxRuns == 1
\* days the scheduler is followed over
MaxDays == 2
\* calls of start_scheduler in one process
MaxStarts == 2
\* number of subscribe requests in flight at once
NumReq == 1
\* subscribe requests in flight at once where requests race
NumRacers == 2

\* --------------------------------------------------------------- values
\* a nullable column or attribute: <<>> is None / NULL, <<v>> is the value v
Null == <<>>
Some(v) == <<v>>

Letters == <<"a", "b", "c", "d">>
Capitals == <<"A", "B", "C", "D">>

\* the normalized address number i
Addr(i) == <<Letters[i], "@", "x", ".", "i", "o">>

Addresses == { Addr(i) : i \in 1..NumAddr }

\* what a visitor may type for address i, and two inputs that are no address
RawInputs ==
  { Addr(i) : i \in 1..NumAddr }
  \cup { <<Capitals[i], "@", "X", ".", "i", "o">> : i \in 1..NumAddr }
  \cup { <<" ">> \o Addr(1) \o <<" ">>, <<"a", "@", "x">>, <<>>, <<" ">> }

\* str.lower() on the characters the inputs use
LowerChar(c) ==
  IF \E k \in 1..Len(Capitals) : Capitals[k] = c
    THEN Letters[CHOOSE k \in 1..Len(Capitals) : Capitals[k] = c]
    ELSE IF c = "X" THEN "x" ELSE c

lower(s) == [k \in 1..Len(s) |-> LowerChar(s[k])]

\* str.strip()
RECURSIVE strip(_)
strip(s) ==
  IF s = <<>> THEN s
  ELSE IF Head(s) = " " THEN strip(Tail(s))
  ELSE IF s[Len(s)] = " " THEN strip(SubSeq(s, 1, Len(s) - 1))
  ELSE s

\* [a-zA-Z] on the characters the inputs use
AsciiLetters ==
  { Letters[k] : k \in 1..Len(Letters) } \cup { Capitals[k] : k \in 1..Len(Capitals) }
  \cup {"x", "X", "i", "o"}
Digits == {"0", "1", "2", "3", "4", "5", "6", "7", "8", "9"}
LocalChars == AsciiLetters \cup Digits \cup {".", "_", "%", "+", "-"}
DomainChars == AsciiLetters \cup Digits \cup {".", "-"}

\* validate_email: ^[a-zA-Z0-9._%+-]+@[a-zA-Z0-9.-]+\.[a-zA-Z]{2,}$
validate_email(email) ==
  \E at \in 2..Len(email) : \E dot \in (at + 2)..(Len(email) - 2) :
    /\ email[at] = "@"
    /\ \A k \in 1..(at - 1) : email[k] \in LocalChars
    /\ \A k \in (at + 1)..(dot - 1) : email[k] \in DomainChars
    /\ email[dot] = "."
    /\ \A k \in (dot + 1)..Len(email) : email[k] \in AsciiLetters

\* ------------------------------------------------------------------ state
VARIABLES
  users,        \* table users: row id is the position
  email_logs,   \* table email_logs, in insertion order
  now,          \* the clock read by datetime.utcnow()
  runs,         \* firings of daily_news_job so far
  job,          \* the run of send_daily_news in the scheduler thread
  manual,       \* the request executing test_send_now
  req,          \* the requests executing subscribe / api_subscribe
  response,     \* Article Source alone: the provider response
  news_pc,      \* Article Source alone: "call" before, "done" after the call
  news_out,     \* Article Source alone: the list fetch_ai_news returned
  sched         \* the BackgroundScheduler instances of the process and its exit

vars == <<users, email_logs, now, runs, job, manual, req, response, news_pc, news_out, sched>>

newsvars == <<response, news_pc, news_out>>

Reqs == 1..NumReq

\* User(email=email): date_subscribed and is_active take their defaults
NewUser(email, t) ==
  [email |-> email, date_subscribed |-> t, is_active |-> TRUE, last_email_sent |-> Null]

\* the rows of filter_by(is_active=True) from row k on
RECURSIVE FilterActive(_, _)
FilterActive(table, k) ==
  IF k > Len(table) THEN <<>>
  ELSE (IF table[k].is_active THEN <<[id |-> k, email |-> table[k].email]>> ELSE <<>>)
       \o FilterActive(table, k + 1)

\* a query without the filter on is_active
ActiveUsers_All(table) ==
  [k \in 1..Len(table) |-> [id |-> k, email |-> table[k].email]]

\* User.query.filter_by(is_active=True).all(): the loaded objects, in id order
ActiveUsers(table) == FilterActive(table, 1)

\* User.query.filter_by(email=email).first(): the row id, 0 for None
FindUser(table, email) ==
  IF \E k \in 1..Len(table) : table[k].email = email
    THEN CHOOSE k \in 1..Len(table) : table[k].email = email
    ELSE 0

\* the locals of a run of send_daily_news that has not started
IdleJob ==
  [pc |-> "idle", users |-> <<>>, news_articles |-> <<>>, i |-> 1,
   successful_sends |-> 0, failed_sends |-> 0,
   new_logs |-> <<>>, dirty |-> <<>>, outbox |-> <<>>,
   fetches |-> 0, log_base |-> 0, dropped |-> 0,
   committed |-> "no", summary |-> Null]

\* the locals of test_send_now before a request
IdleManual ==
  [pc |-> "idle", users |-> <<>>, articles |-> <<>>, i |-> 1,
   results |-> <<>>, outbox |-> <<>>, status |-> 0]

IdleReq == [pc |-> "idle", route |-> "none", email |-> <<>>, existing |-> 0]

\* ------------------------------------- scheduler_service.start_scheduler
\* id='daily_news_job' (line 113)
JobId == "daily_news_job"

\* BackgroundScheduler(daemon=True): a scheduler whose job store is empty
BackgroundScheduler == {}

\* scheduler.add_job(..., id=id, replace_existing=True): a job of that id in
\* the store of this scheduler is replaced (lines 109-117)
add_job(store, id) == (store \ {id}) \cup {id}

\* start_scheduler(app), lines 104-136: a scheduler is constructed, the job
\* is added to its store, it is started and returned; instances are the
\* job stores of the schedulers the process has started
start_scheduler(instances) == Append(instances, add_job(BackgroundScheduler, JobId))

\* a process in which start_scheduler has not been called
NoScheduler ==
  [instances |-> <<>>, state |-> "running", day |-> 1, last |-> "none",
   at_shutdown |-> "idle"]

\* the process after start-up: start_scheduler has been called once
OneScheduler == [NoScheduler EXCEPT !.instances = start_scheduler(<<>>)]

\* the jobs with the id of the daily job over all started schedulers
RegisteredJobs(s) ==
  Cardinality({k \in 1..Len(s.instances) : JobId \in s.instances[k]})

Init ==
  /\ users = <<>>
  /\ email_logs = <<>>
  /\ now = 1
  /\ runs = 0
  /\ job = IdleJob
  /\ manual = IdleManual
  /\ req = [r \in Reqs |-> IdleReq]
  /\ response = [api_key |-> FALSE, kind |-> "ok", articles |-> <<>>]
  /\ news_pc = "unused"
  /\ news_out = <<>>
  /\ sched = OneScheduler

\* time passes
Tick ==
  /\ now < MaxTime
  /\ now' = now + 1
  /\ UNCHANGED <<users, email_logs, runs, job, manual, req, newsvars, sched>>

\* ------------------------------------------- email_service.send_news_email
\* what one transmission call may do: return True, return False, or raise
\* a fault whose text str(e) may be empty
FaultTexts == {"", "SMTP error"}

SendOutcomes ==
  { [kind |-> "return", value |-> TRUE, text |-> ""],
    [kind |-> "return", value |-> FALSE, text |-> ""] }
  \cup { [kind |-> "raise", value |-> FALSE, text |-> t] : t \in FaultTexts }

\* how a call ended, as the outbox records it
CallResult(out) ==
  IF out.kind = "raise" THEN "raise" ELSE IF out.value THEN "true" ELSE "false"

\* where the loop body may fault after the transmission has returned:
\* building the EmailLog (lines 48-52) or db.session.add (line 63)
StageFaults == {"none", "log_ctor", "session_add"}

\* str(e) of such a fault
StageFaultText == "staging error"

\* --------------------------------------- scheduler_service.send_daily_news
\* EmailLog(user_id=..., articles_count=..., status=...); the column
\* email_sent_at, set by its default when the row is inserted, is left out
EmailLog(user_id, articles_count, status, error_message) ==
  [user_id |-> user_id, articles_count |-> articles_count,
   status |-> status, error_message |-> error_message]

\* an except branch that counts the failure and logs no row
OnSendError_NoRow(j, user, e, hfault) ==
  [j EXCEPT !.failed_sends = @ + 1]

\* the except branch of the loop body (lines 65-79) for a fault of text e;
\* hfault: building or adding error_log raises and is swallowed (line 78)
OnSendError(j, user, e, hfault) ==
  IF hfault
    THEN [j EXCEPT !.failed_sends = @ + 1, !.dropped = @ + 1]
    ELSE [j EXCEPT !.failed_sends = @ + 1,
                   !.new_logs = Append(@, EmailLog(user.id, Len(j.news_articles), "failed", Some(e)))]

\* lines 54-61: the counters, last_email_sent and the error text of the row
AfterSend(j, user, success, t) ==
  IF success
    THEN [j EXCEPT !.successful_sends = @ + 1,
                   !.dirty = Append(@, [id |-> user.id, last_email_sent |-> t])]
    ELSE [j EXCEPT !.failed_sends = @ + 1]

\* a row built without articles_count, which then takes its default
SendLog_DefaultCount(j, user, success) ==
  EmailLog(user.id, 0,
           IF success THEN "sent" ELSE "failed",
           IF success THEN Null ELSE Some("Failed to send email"))

\* the row of lines 48-52 and 60
SendLog(j, user, success) ==
  EmailLog(user.id, Len(j.news_articles),
           IF success THEN "sent" ELSE "failed",
           IF success THEN Null ELSE Some("Failed to send email"))

\* an iteration that calls send_news_email again after a False return
LoopBody_Retry(j, out, sfault, hfault, t) ==
  LET user == j.users[j.i]
      call == [to |-> user.email, articles |-> j.news_articles, result |-> CallResult(out)]
      j1 == [j EXCEPT !.outbox = IF CallResult(out) = "false"
                                   THEN Append(Append(@, call), call)
                                   ELSE Append(@, call)]
  IN  IF out.kind = "raise" THEN OnSendError(j1, user, out.text, hfault)
      ELSE IF sfault = "log_ctor" THEN OnSendError(j1, user, StageFaultText, hfault)
      ELSE LET j2 == AfterSend(j1, user, out.value, t)
           IN  IF sfault = "session_add" THEN OnSendError(j2, user, StageFaultText, hfault)
               ELSE [j2 EXCEPT !.new_logs = Append(@, SendLog(j, user, out.value))]

\* one iteration of the loop (lines 43-79) for the user at position j.i
LoopBody(j, out, sfault, hfault, t) ==
  LET user == j.users[j.i]
      j1 == [j EXCEPT !.outbox = Append(@, [to |-> user.email, articles |-> j.news_articles,
                                            result |-> CallResult(out)])]
  IN  IF out.kind = "raise" THEN OnSendError(j1, user, out.text, hfault)
      ELSE IF sfault = "log_ctor" THEN OnSendError(j1, user, StageFaultText, hfault)
      ELSE LET j2 == AfterSend(j1, user, out.value, t)
           IN  IF sfault = "session_add" THEN OnSendError(j2, user, StageFaultText, hfault)
               ELSE [j2 EXCEPT !.new_logs = Append(@, SendLog(j, user, out.value))]

\* a commit that writes each modified user back whole, as the run loaded
\* it: active
CommitUsers_WholeRow(table, dirty) ==
  [k \in 1..Len(table) |->
     IF \E d \in 1..Len(dirty) : dirty[d].id = k
       THEN [table[k] EXCEPT !.is_active = TRUE,
                             !.last_email_sent =
               Some(dirty[CHOOSE d \in 1..Len(dirty) : dirty[d].id = k].last_email_sent)]
       ELSE table[k]]

\* a commit that writes the log rows and no UPDATE of users
CommitUsers_None(table, dirty) == table

\* db.session.commit() of the run: the pending rows are inserted and each
\* modified user gets UPDATE users SET last_email_sent = ... WHERE id = ...
CommitUsers(table, dirty) ==
  [k \in 1..Len(table) |->
     IF \E d \in 1..Len(dirty) : dirty[d].id = k
       THEN [table[k] EXCEPT !.last_email_sent =
               Some(dirty[CHOOSE d \in 1..Len(dirty) : dirty[d].id = k].last_email_sent)]
       ELSE table[k]]

\* the scheduler fires daily_news_job; max_instances=1: a firing while the
\* previous instance runs is skipped.  lines 18-26
JobStart ==
  /\ sched.state = "running"
  /\ RegisteredJobs(sched) >= 1
  /\ job.pc = "idle"
  /\ runs < MaxRuns
  /\ runs' = runs + 1
  /\ \E qfault \in BOOLEAN :
       IF qfault
         THEN \* the query raises: outer except, rollback (lines 93-99)
              job' = [IdleJob EXCEPT !.pc = "done", !.committed = "aborted",
                                     !.log_base = Len(email_logs)]
         ELSE LET snap == ActiveUsers(users)
              IN  job' = [IdleJob EXCEPT !.pc = IF snap = <<>> THEN "done" ELSE "fetch",
                                         !.users = snap,
                                         !.log_base = Len(email_logs)]
  /\ UNCHANGED <<users, email_logs, now, manual, req, newsvars, sched>>

\* a fetch step after which the loop runs over the subscribers active now
JobFetch_Requery ==
  /\ job.pc = "fetch"
  /\ \E resp \in RunResponses :
       LET news_articles == fetch_ai_news(resp)
       IN  job' = [job EXCEPT !.news_articles = news_articles,
                              !.users = ActiveUsers(users),
                              !.fetches = @ + 1,
                              !.pc = IF news_articles = <<>> \/ ActiveUsers(users) = <<>>
                                       THEN "done" ELSE "loop"]
  /\ UNCHANGED <<users, email_logs, now, runs, manual, req, newsvars, sched>>

\* a fetch step without the return of lines 32-34
JobFetch_NoEmptyCheck ==
  /\ job.pc = "fetch"
  /\ \E resp \in RunResponses :
       job' = [job EXCEPT !.news_articles = fetch_ai_news(resp),
                          !.fetches = @ + 1,
                          !.pc = "loop"]
  /\ UNCHANGED <<users, email_logs, now, runs, manual, req, newsvars, sched>>

\* lines 28-36
JobFetch ==
  /\ job.pc = "fetch"
  /\ \E resp \in RunResponses :
       LET news_articles == fetch_ai_news(resp)
       IN  job' = [job EXCEPT !.news_articles = news_articles,
                              !.fetches = @ + 1,
                              !.pc = IF news_articles = <<>> THEN "done" ELSE "loop"]
  /\ UNCHANGED <<users, email_logs, now, runs, manual, req, newsvars, sched>>

\* lines 43-79, one subscriber
JobSend ==
  /\ job.pc = "loop"
  /\ \E out \in SendOutcomes, sfault \in StageFaults, hfault \in BOOLEAN :
       LET j == LoopBody(job, out, sfault, hfault, now)
       IN  job' = [j EXCEPT !.i = @ + 1,
                            !.pc = IF j.i + 1 > Len(j.users) THEN "commit" ELSE "loop"]
  /\ UNCHANGED <<users, email_logs, now, runs, manual, req, newsvars, sched>>

\* lines 88-91
Summary(j) ==
  Some([successCount |-> j.successful_sends, failureCount |-> j.failed_sends,
        articleCount |-> Len(j.news_articles)])

\* a commit outside any try: its fault leaves send_daily_news
JobCommit_NoCatch ==
  /\ job.pc = "commit"
  /\ \E ok \in BOOLEAN :
       IF ok
         THEN /\ email_logs' = email_logs \o job.new_logs
              /\ users' = CommitUsers(users, job.dirty)
              /\ job' = [job EXCEPT !.pc = "done", !.committed = "yes", !.summary = Summary(job)]
         ELSE /\ UNCHANGED <<users, email_logs>>
              /\ job' = [job EXCEPT !.pc = "done", !.committed = "escaped"]
  /\ UNCHANGED <<now, runs, manual, req, newsvars, sched>>

\* lines 81-91
JobCommit ==
  /\ job.pc = "commit"
  /\ \E ok \in BOOLEAN :
       IF ok
         THEN /\ email_logs' = email_logs \o job.new_logs
              /\ users' = CommitUsers(users, job.dirty)
              /\ job' = [job EXCEPT !.pc = "done", !.committed = "yes", !.summary = Summary(job)]
         ELSE \* commit raises: rollback (line 86)
              /\ UNCHANGED <<users, email_logs>>
              /\ job' = [job EXCEPT !.pc = "done", !.committed = "rolled_back",
                                    !.summary = Summary(job)]
  /\ UNCHANGED <<now, runs, manual, req, newsvars, sched>>

\* how a run ended: by the commit, the rollback of line 86, the outer
\* except of lines 93-99, or one of the early returns of lines 24-26, 32-34
Outcome(j) == IF j.committed = "no" THEN "noop" ELSE j.committed

\* send_daily_news returns; the job instance is over
JobReturn ==
  /\ job.pc = "done"
  /\ job' = IdleJob
  /\ sched' = [sched EXCEPT !.last = Outcome(job)]
  /\ UNCHANGED <<users, email_logs, now, runs, manual, req, newsvars>>

\* ------------------------------------------------- routes.test_send_now
\* lines 244-251
ManualStart ==
  /\ manual.pc = "idle"
  /\ LET snap == ActiveUsers(users)
     IN  manual' = IF snap = <<>>
                     THEN [IdleManual EXCEPT !.pc = "done", !.status = 200]
                     ELSE [IdleManual EXCEPT !.pc = "fetch", !.users = snap]
  /\ UNCHANGED <<users, email_logs, now, runs, job, req, newsvars, sched>>

\* lines 253-258
ManualFetch ==
  /\ manual.pc = "fetch"
  /\ \E resp \in RunResponses :
       LET fetched == fetch_ai_news(resp)
       IN  manual' = [manual EXCEPT
                        !.articles = IF fetched = <<>> THEN get_fallback_news ELSE fetched,
                        !.pc = "loop"]
  /\ UNCHANGED <<users, email_logs, now, runs, job, req, newsvars, sched>>

\* lines 262-267 for one subscriber; a fault leaves the loop (line 277)
ManualSend ==
  /\ manual.pc = "loop"
  /\ \E out \in SendOutcomes :
       LET user == manual.users[manual.i]
           m == [manual EXCEPT !.outbox = Append(@, [to |-> user.email, articles |-> manual.articles,
                                                    result |-> CallResult(out)])]
       IN  manual' =
             IF out.kind = "raise"
               THEN [m EXCEPT !.pc = "done", !.status = 500]
               ELSE [m EXCEPT !.results = Append(@, [email |-> user.email, success |-> out.value]),
                              !.i = @ + 1,
                              !.pc = IF m.i + 1 > Len(m.users) THEN "done" ELSE "loop",
                              !.status = IF m.i + 1 > Len(m.users) THEN 200 ELSE 0]
  /\ UNCHANGED <<users, email_logs, now, runs, job, req, newsvars, sched>>

\* the response is sent
ManualReturn ==
  /\ manual.pc = "done"
  /\ manual' = IdleManual
  /\ UNCHANGED <<users, email_logs, now, runs, job, req, newsvars, sched>>

\* --------------------------------- routes.subscribe, routes.api_subscribe
\* the request up to the existence check (subscribe lines 33-46,
\* api_subscribe lines 158-173)
SubscribeQuery(r, route, raw) ==
  /\ req[r].pc = "idle"
  /\ LET email == lower(strip(raw))
         existing == FindUser(users, email)
     IN  req' = [req EXCEPT ![r] =
           IF email = <<>> \/ ~validate_email(email)
             THEN IdleReq
           ELSE IF existing # 0 /\ users[existing].is_active
             THEN IdleReq
           ELSE [pc |-> IF existing # 0 THEN "reactivate" ELSE "insert",
                 route |-> route, email |-> email, existing |-> existing]]
  /\ UNCHANGED <<users, email_logs, now, runs, job, manual, newsvars, sched>>

\* a reactivation that leaves date_subscribed alone
Reactivate_KeepDate(table, id, t) ==
  [table EXCEPT ![id].is_active = TRUE]

\* the reactivation of lines 53-55 / 176-177 as the UPDATE it commits
Reactivate(table, id, t) ==
  [table EXCEPT ![id].is_active = TRUE, ![id].date_subscribed = t]

\* a commit on a table without the unique index on email
SubscribeCommit_NoUnique(r) ==
  /\ req[r].pc \in {"reactivate", "insert"}
  /\ IF req[r].pc = "reactivate"
       THEN /\ users' = Reactivate(users, req[r].existing, now)
            /\ req' = [req EXCEPT ![r] = IdleReq]
       ELSE /\ users' = Append(users, NewUser(req[r].email, now))
            /\ req' = [req EXCEPT ![r] = IdleReq]
  /\ UNCHANGED <<email_logs, now, runs, job, manual, newsvars, sched>>

\* the write and db.session.commit() (subscribe lines 53-61, api_subscribe
\* lines 176-182); the INSERT violates the unique index on email when the
\* address has been inserted meanwhile, and the request rolls back
SubscribeCommit(r) ==
  /\ req[r].pc \in {"reactivate", "insert"}
  /\ IF req[r].pc = "reactivate"
       THEN /\ users' = Reactivate(users, req[r].existing, now)
            /\ req' = [req EXCEPT ![r] = IdleReq]
       ELSE IF FindUser(users, req[r].email) # 0
         THEN /\ UNCHANGED users
              /\ req' = [req EXCEPT ![r] = IdleReq]
         ELSE /\ users' = Append(users, NewUser(req[r].email, now))
              /\ req' = [req EXCEPT ![r] = IdleReq]
  /\ UNCHANGED <<email_logs, now, runs, job, manual, newsvars, sched>>

\* an unsubscription that deletes the row
Unsubscribe_Delete(raw) ==
  /\ LET id == FindUser(users, lower(raw))
     IN  /\ id # 0
         /\ users[id].is_active
         /\ users' = [k \in 1..(Len(users) - 1) |->
                        IF k < id THEN users[k] ELSE users[k + 1]]
  /\ UNCHANGED <<email_logs, now, runs, job, manual, req, newsvars, sched>>

\* routes.unsubscribe (lines 77-87)
Unsubscribe(raw) ==
  /\ LET id == FindUser(users, lower(raw))
     IN  /\ id # 0
         /\ users[id].is_active
         /\ users' = [users EXCEPT ![id].is_active = FALSE]
  /\ UNCHANGED <<email_logs, now, runs, job, manual, req, newsvars, sched>>

\* -------------------------------------------------------- specification
\* the store, its routes and the scheduled run
Next ==
  \/ Tick
  \/ JobStart
  \/ JobFetch
  \/ JobSend
  \/ JobCommit
  \/ JobReturn
  \/ \E r \in Reqs, route \in {"form", "api"}, raw \in RawInputs : SubscribeQuery(r, route, raw)
  \/ \E r \in Reqs : SubscribeCommit(r)
  \/ \E raw \in RawInputs : Unsubscribe(raw)

Spec == Init /\ [][Next]_vars

\* --------------------- the scheduled run and the manual trigger together
\* a store that subscribe and unsubscribe requests have produced: the
\* first n addresses, each active or not
Stores ==
  UNION { { [k \in 1..n |-> [NewUser(Addr(k), 1) EXCEPT !.is_active = act[k]]] :
            act \in [1..n -> BOOLEAN] } : n \in 0..NumAddr }

InitTrigger ==
  /\ users \in Stores
  /\ email_logs = <<>>
  /\ now = 1
  /\ runs = 0
  /\ job = IdleJob
  /\ manual = IdleManual
  /\ req = [r \in Reqs |-> IdleReq]
  /\ response = [api_key |-> FALSE, kind |-> "ok", articles |-> <<>>]
  /\ news_pc = "unused"
  /\ news_out = <<>>
  /\ sched = OneScheduler

NextTrigger ==
  \/ JobStart
  \/ JobFetch
  \/ JobSend
  \/ JobCommit
  \/ JobReturn
  \/ ManualStart
  \/ ManualFetch
  \/ ManualSend
  \/ ManualReturn
  \/ \E raw \in RawInputs : Unsubscribe(raw)

SpecTrigger == InitTrigger /\ [][NextTrigger]_vars

\* ------------------------------------ the Article Source on its own
InitNews ==
  /\ users = <<>>
  /\ email_logs = <<>>
  /\ now = 1
  /\ runs = 0
  /\ job = IdleJob
  /\ manual = IdleManual
  /\ req = [r \in Reqs |-> IdleReq]
  /\ response \in ProviderResponses
  /\ news_pc = "call"
  /\ news_out = <<>>
  /\ sched = OneScheduler

\* NewsService().fetch_ai_news()
FetchNews ==
  /\ news_pc = "call"
  /\ news_out' = fetch_ai_news(response)
  /\ news_pc' = "done"
  /\ UNCHANGED <<users, email_logs, now, runs, job, manual, req, response, sched>>

NextNews == FetchNews

SpecNews == InitNews /\ [][NextNews]_vars

\* ------------------------------ the scheduler over days and process exit
\* the next day begins: the cron trigger of line 111 is due again
DayPasses ==
  /\ sched.state = "running"
  /\ sched.day < MaxDays
  /\ sched' = [sched EXCEPT !.day = @ + 1]
  /\ runs' = 0
  /\ UNCHANGED <<users, email_logs, now, job, manual, req, newsvars>>

\* the process exits: the handler registered at line 131 calls
\* scheduler.shutdown(), after which the scheduler fires no job
ShutdownBegin ==
  /\ sched.state = "running"
  /\ sched' = [sched EXCEPT !.state = "stopping", !.at_shutdown = job.pc]
  /\ UNCHANGED <<users, email_logs, now, runs, job, manual, req, newsvars>>

\* a shutdown that does not wait for the executor
CanExit_NoWait(j) == TRUE

\* shutdown() is shutdown(wait=True): it returns when the executor has no
\* running job
CanExit(j) == j.pc = "idle"

\* shutdown() returns and the process ends
ShutdownEnd ==
  /\ sched.state = "stopping"
  /\ CanExit(job)
  /\ sched' = [sched EXCEPT !.state = "exited"]
  /\ UNCHANGED <<users, email_logs, now, runs, job, manual, req, newsvars>>

InitSched ==
  /\ users \in Stores
  /\ email_logs = <<>>
  /\ now = 1
  /\ runs = 0
  /\ job = IdleJob
  /\ manual = IdleManual
  /\ req = [r \in Reqs |-> IdleReq]
  /\ response = [api_key |-> FALSE, kind |-> "ok", articles |-> <<>>]
  /\ news_pc = "unused"
  /\ news_out = <<>>
  /\ sched = OneScheduler

NextSched ==
  \/ JobStart
  \/ JobFetch
  \/ JobSend
  \/ JobCommit
  \/ JobReturn
  \/ DayPasses
  \/ ShutdownBegin
  \/ ShutdownEnd

SpecSched == InitSched /\ [][NextSched]_vars

\* ------------------------------------------- subscribe requests racing
\* the store and its routes with several subscribe requests in flight
InitSubscribe ==
  /\ users = <<>>
  /\ email_logs = <<>>
  /\ now = 1
  /\ runs = 0
  /\ job = IdleJob
  /\ manual = IdleManual
  /\ req = [r \in 1..NumRacers |-> IdleReq]
  /\ response = [api_key |-> FALSE, kind |-> "ok", articles |-> <<>>]
  /\ news_pc = "unused"
  /\ news_out = <<>>
  /\ sched = OneScheduler

NextSubscribe ==
  \/ Tick
  \/ \E r \in 1..NumRacers, route \in {"form", "api"}, raw \in RawInputs :
       SubscribeQuery(r, route, raw)
  \/ \E r \in 1..NumRacers : SubscribeCommit(r)
  \/ \E raw \in RawInputs : Unsubscribe(raw)

SpecSubscribe == InitSubscribe /\ [][NextSubscribe]_vars

\* ----------------------------------------- start_scheduler called again
\* a call of start_scheduler(app) that reaches line 136; a call that
\* faults returns None and leaves the schedulers as they were
StartScheduler ==
  /\ sched.state = "running"
  /\ Len(sched.instances) < MaxStarts
  /\ sched' = [sched EXCEPT !.instances = start_scheduler(@)]
  /\ UNCHANGED <<users, email_logs, now, runs, job, manual, req, newsvars>>

InitRegister ==
  /\ users \in Stores
  /\ email_logs = <<>>
  /\ now = 1
  /\ runs = 0
  /\ job = IdleJob
  /\ manual = IdleManual
  /\ req = [r \in Reqs |-> IdleReq]
  /\ response = [api_key |-> FALSE, kind |-> "ok", articles |-> <<>>]
  /\ news_pc = "unused"
  /\ news_out = <<>>
  /\ sched = NoScheduler

\* the calls of start_scheduler and the run that a registered job starts
NextRegister ==
  \/ StartScheduler
  \/ JobStart
  \/ JobFetch
  \/ JobSend
  \/ JobCommit
  \/ JobReturn

SpecRegister == InitRegister /\ [][NextRegister]_vars

\* ================================================================ claims
\* the rows the current run of send_daily_news has put into email_logs
RowsCreated == Len(email_logs) - job.log_base

\* the run is over and was not one of the no-op short-circuits
RanToEnd == job.pc = "done" /\ job.users # <<>> /\ job.news_articles # <<>>

\* the positions of the snapshot whose transmission call ended as r
CallsEnding(r) == { k \in 1..Len(job.outbox) : job.outbox[k].result = r }

\* the pending rows of the run for the user id
PendingRowsOf(id) == { k \in 1..Len(job.new_logs) : job.new_logs[k].user_id = id }

C2_FaultYieldsFailedRow ==
  job.pc \in {"commit", "done"} /\ job.news_articles # <<>> =>
    /\ Len(job.outbox) = Len(job.users)
    /\ \A k \in CallsEnding("raise") :
         /\ Cardinality(PendingRowsOf(job.users[k].id)) = 1
         /\ \A n \in PendingRowsOf(job.users[k].id) :
              /\ job.new_logs[n].status = "failed"
              /\ job.new_logs[n].error_message # Null
              /\ job.new_logs[n].error_message # Some("")

\* C3: never two batch runs in progress at once, the scheduled one and the
\* manual one included.
C3_OneRunAtATime ==
  ~(job.pc # "idle" /\ manual.pc # "idle")

\* C4: the snapshot of a run never changes while the run is in progress,
\* whatever subscribe and unsubscribe requests commit meanwhile; the
\* transmissions made so far went to the first subscribers of the snapshot,
\* in order, and every pending row belongs to a subscriber of the snapshot.
C4_SnapshotFixed ==
  [][/\ (job.pc # "idle" /\ job'.pc # "idle") => job'.users = job.users
     /\ Len(job'.outbox) <= Len(job'.users)
     /\ \A k \in 1..Len(job'.outbox) : job'.outbox[k].to = job'.users[k].email
     /\ (job'.pc \in {"commit", "done"} /\ job'.news_articles # <<>>)
          => Len(job'.outbox) = Len(job'.users)
     /\ \A n \in 1..Len(job'.new_logs) :
          \E k \in 1..Len(job'.users) : job'.users[k].id = job'.new_logs[n].user_id]_vars

\* a run has ended whose recipients differ from the subscribers active now
C4_Witness ==
  /\ RanToEnd
  /\ job.committed = "yes"
  /\ Len(job.outbox) = Len(job.users)
  /\ RowsCreated = Len(job.users)
  /\ \E id \in 1..Len(users) :
       /\ ~users[id].is_active
       /\ \E k \in 1..Len(job.users) : job.users[k].id = id
  /\ \E id \in 1..Len(users) :
       /\ users[id].is_active
       /\ \A k \in 1..Len(job.users) : job.users[k].id # id

\* the snapshot snap holds exactly the rows of table whose active flag is set
ExactlyActive(snap, table) ==
  /\ \A id \in 1..Len(table) :
       table[id].is_active <=> \E k \in 1..Len(snap) : snap[k].id = id /\ snap[k].email = table[id].email
  /\ \A k \in 1..Len(snap) : snap[k].id \in 1..Len(table)

\* C5: the snapshot of a run, scheduled or manual, holds exactly the
\* subscribers whose active flag is set when it is taken, and the run
\* transmits to and logs no one outside its snapshot.
C5_OnlyActiveAtSnapshot ==
  [][/\ (job.pc = "idle" /\ job'.pc \in {"fetch", "loop"}) => ExactlyActive(job'.users, users)
     /\ (manual.pc = "idle" /\ manual'.pc \in {"fetch", "loop"}) => ExactlyActive(manual'.users, users)
     /\ \A k \in 1..Len(job'.outbox) :
          \E u \in 1..Len(job'.users) : job'.users[u].email = job'.outbox[k].to
     /\ \A k \in 1..Len(manual'.outbox) :
          \E u \in 1..Len(manual'.users) : manual'.users[u].email = manual'.outbox[k].to
     /\ \A n \in 1..Len(job'.new_logs) :
          \E u \in 1..Len(job'.users) : job'.users[u].id = job'.new_logs[n].user_id]_vars

\* both kinds of run have ended on a store with an inactive subscriber,
\* who got no transmission and no row
C5_Witness ==
  /\ RanToEnd
  /\ job.committed = "yes"
  /\ manual.pc = "done"
  /\ manual.status = 200
  /\ Len(users) = 2
  /\ Len(job.users) = 1
  /\ Len(manual.users) = 1
  /\ Len(manual.outbox) = 1
  /\ Len(job.outbox) = 1
  /\ Len(email_logs) = 1
  /\ \E id \in 1..Len(users) :
       /\ ~users[id].is_active
       /\ job.users[1].id # id
       /\ job.outbox[1].to # users[id].email
       /\ manual.outbox[1].to # users[id].email
       /\ email_logs[1].user_id # id

\* the rows of the run in email_logs that are failed with a non-empty text
FailedRowsWithText ==
  { k \in (job.log_base + 1)..Len(email_logs) :
      /\ email_logs[k].status = "failed"
      /\ email_logs[k].error_message # Null
      /\ email_logs[k].error_message # Some("") }

\* C6: a run over n subscribers with a non-empty article list reports as
\* successCount the number of transmissions that returned true and as
\* failureCount the number that returned false or raised; n rows exist for
\* the run, failureCount of them failed with a non-empty error text.
C6_CountsMatchOutcomes ==
  RanToEnd =>
    /\ job.summary # Null
    /\ job.summary[1].successCount = Cardinality(CallsEnding("true"))
    /\ job.summary[1].failureCount = Cardinality(CallsEnding("false") \cup CallsEnding("raise"))
    /\ RowsCreated = Len(job.users)
    /\ Cardinality(FailedRowsWithText) = job.summary[1].failureCount
    /\ \A k \in (job.log_base + 1)..Len(email_logs) :
         email_logs[k].status = "failed" => k \in FailedRowsWithText

\* C7: a run whose snapshot is empty returns a summary of zero counts,
\* calls neither the Article Source nor the transmission, and writes no
\* delivery-log row.
C7_EmptySnapshotNoOp ==
  (job.pc = "done" /\ job.committed # "aborted" /\ job.users = <<>>) =>
    /\ job.summary = Some([successCount |-> 0, failureCount |-> 0, articleCount |-> 0])
    /\ job.fetches = 0
    /\ job.outbox = <<>>
    /\ RowsCreated = 0

\* the external call of the Article Source failed: no credential, a
\* transport error, a timeout, a non-success status, or a body that cannot
\* be parsed or is not the object with the list of article objects
CallFailed(resp) ==
  \/ ~resp.api_key
  \/ resp.kind # "ok"
  \/ \E i \in 1..Len(resp.articles) : ~resp.articles[i].is_dict

\* C8: whenever the external call fails, fetch_ai_news returns exactly the
\* fallback list of get_fallback_news, which has at least 5 items.
C8_FailureGivesFallback ==
  (news_pc = "done" /\ CallFailed(response)) =>
    /\ news_out = get_fallback_news
    /\ Len(news_out) >= 5

\* the positions of the provider's articles that pass the filter
QualifyingAt(articles) ==
  { i \in 1..Len(articles) :
      /\ articles[i].title # "" /\ articles[i].url # ""
      /\ articles[i].description # <<>> /\ articles[i].title # RemovedTitle }

\* the position of the k-th qualifying article
KthQualifying(articles, k) ==
  CHOOSE i \in QualifyingAt(articles) :
    Cardinality({ m \in QualifyingAt(articles) : m <= i }) = k

\* d is the description of the list entry made from the provider's text p
IsTruncationOf(d, p) ==
  IF Len(p) <= 250 THEN d = p
  ELSE /\ Len(d) = 250
       /\ \A c \in 1..247 : d[c] = p[c]
       /\ \A c \in 248..250 : d[c] = "."

\* C9: the list fetch_ai_news returns has at most 5 entries, every
\* description has at most 250 characters, no entry has an empty title, URL
\* or description nor the title '[Removed]'; on the provider path the
\* entries are the first qualifying provider items in provider order, a
\* description longer than 250 cut to its first 247 characters plus '...'.
C9_ArticleListBounds ==
  news_pc = "done" =>
    /\ Len(news_out) <= 5
    /\ \A k \in 1..Len(news_out) :
         /\ Len(news_out[k].description) <= 250
         /\ news_out[k].description # <<>>
         /\ news_out[k].title # ""
         /\ news_out[k].url # ""
         /\ news_out[k].title # "[Removed]"
    /\ ~CallFailed(response) =>
         /\ Len(news_out) = (IF Cardinality(QualifyingAt(response.articles)) < 5
                               THEN Cardinality(QualifyingAt(response.articles)) ELSE 5)
         /\ \A k \in 1..Len(news_out) :
              LET p == response.articles[KthQualifying(response.articles, k)]
              IN  /\ news_out[k].title = p.title
                  /\ news_out[k].url = p.url
                  /\ IsTruncationOf(news_out[k].description, p.description)

\* six provider items qualify, five are returned, one of them cut to 250
C9_Witness ==
  /\ news_pc = "done"
  /\ ~CallFailed(response)
  /\ Cardinality(QualifyingAt(response.articles)) = 6
  /\ Len(news_out) = 5
  /\ \E k \in 1..Len(news_out) :
       /\ Len(news_out[k].description) = 250
       /\ Len(response.articles[KthQualifying(response.articles, k)].description) = 251
  /\ \E i \in 1..Len(response.articles) : response.articles[i].title = "[Removed]"

\* C10: the commit of a re-subscription (of either route) sets is_active and
\* sets date_subscribed to the current time on the row it found, creates no
\* row, and leaves the row's email and last_email_sent, every other row and
\* every delivery-log row as they were.
C10_ResubscribeFrame ==
  [][\A r \in Reqs :
       (req[r].pc = "reactivate" /\ req'[r].pc = "idle") =>
         /\ Len(users') = Len(users)
         /\ users'[req[r].existing].email = req[r].email
         /\ users'[req[r].existing].is_active
         /\ users'[req[r].existing].date_subscribed = now
         /\ users'[req[r].existing].last_email_sent = users[req[r].existing].last_email_sent
         /\ \A id \in 1..Len(users) : id # req[r].existing => users'[id] = users[id]
         /\ email_logs' = email_logs]_vars

\* a subscriber with a delivery-log row and a last_email_sent of time 1 who
\* is active with a subscription date of time 2: re-subscribed after the run
C10_Witness ==
  \E id \in 1..Len(users) :
    /\ users[id].is_active
    /\ users[id].date_subscribed = 2
    /\ users[id].last_email_sent = Some(1)
    /\ \E k \in 1..Len(email_logs) : email_logs[k].user_id = id /\ email_logs[k].status = "sent"

\* C11: every run of send_daily_news ends by returning, whatever faulted in
\* it (the query, a transmission, the staging, the commit); while the
\* process runs the daily job stays registered, and once the run is over
\* the next firing of the trigger starts a run.
C11_RunsEndByReturn ==
  /\ job.pc = "done" => Outcome(job) \in {"noop", "yes", "rolled_back", "aborted"}
  /\ sched.last \in {"none", "noop", "yes", "rolled_back", "aborted"}
  /\ sched.state = "running" => RegisteredJobs(sched) >= 1
  /\ (sched.state = "running" /\ job.pc = "idle" /\ runs < MaxRuns) => ENABLED JobStart

\* the run of the second day has started after the run of the first day
\* ended in the rollback of a failed commit
C11_Witness ==
  /\ sched.day = 2
  /\ sched.last = "rolled_back"
  /\ job.pc = "fetch"
  /\ runs = 1

\* C12: however often start_scheduler has been called, the process holds
\* exactly one registered job with the id daily_news_job.
C12_OneRegisteredJob ==
  Len(sched.instances) >= 1 => RegisteredJobs(sched) = 1

\* C13: a manual trigger that has ended did what the scheduled run does
\* for its snapshot: every snapshotted subscriber has its success flag in
\* the response (a fault of one does not stop the others), there is a
\* delivery-log row for each, and each subscriber whose transmission
\* returned true has last_email_sent set.
C13_ManualRunsSameBatch ==
  (manual.pc = "done" /\ manual.users # <<>>) =>
    /\ Len(manual.results) = Len(manual.users)
    /\ Len(email_logs) >= Len(manual.users)
    /\ \A k \in 1..Len(manual.outbox) :
         manual.outbox[k].result = "true" =>
           users[manual.users[k].id].last_email_sent # Null

\* C14: once shutdown has begun no run starts, a run in progress is not
\* abandoned (it leaves the loop and the commit only by reaching its end),
\* and the process ends only when no run is executing.
C14_ShutdownKeepsRun ==
  [][ sched.state # "running" =>
        /\ job.pc = "idle" => job'.pc = "idle"
        /\ job.pc \notin {"idle", "done"} => job'.pc # "idle"
        /\ sched'.state = "exited" => job'.pc = "idle" ]_vars

\* shutdown began while the run was in its send loop, and the process has
\* ended after that run committed
C14_Witness ==
  /\ sched.at_shutdown = "loop"
  /\ sched.state = "exited"
  /\ sched.last = "yes"
  /\ email_logs # <<>>

C16_LastSentIffTrue ==
  [][ (job.pc = "commit" /\ job'.pc = "done" /\ job'.committed = "yes") =>
        \A k \in 1..Len(job.outbox) :
          LET id == job.users[k].id
          IN  IF job.outbox[k].result = "true"
                THEN users'[id].last_email_sent \in {Some(t) : t \in 1..now}
                ELSE users'[id].last_email_sent = users[id].last_email_sent ]_vars

\* C17: a step of a run makes at most one transmission call, and that call
\* is for the subscriber at the loop position; the calls made so far are
\* one for each subscriber the loop has passed, each of which has its row
\* staged or dropped before the next call; when the loop is over every
\* snapshotted subscriber has been called once.
C17_OneCallEach ==
  [][ job'.pc # "idle" =>
        /\ Len(job'.outbox) = job'.i - 1
        /\ Len(job'.new_logs) + job'.dropped = Len(job'.outbox)
        /\ Len(job'.outbox) <= Len(job.outbox) + 1
        /\ SubSeq(job'.outbox, 1, Len(job.outbox)) = job.outbox
        /\ job'.outbox # job.outbox =>
             job'.outbox[Len(job'.outbox)].to = job.users[job.i].email
        /\ job'.pc = "commit" => job'.i = Len(job'.users) + 1 ]_vars

\* a run of two subscribers has ended: the first transmission returned
\* False and was not repeated, the second returned True
C17_Witness ==
  /\ job.pc = "done"
  /\ Len(job.users) = 2
  /\ Len(job.outbox) = 2
  /\ job.outbox[1].result = "false"
  /\ job.outbox[2].result = "true"
  /\ job.outbox[1].to # job.outbox[2].to

\* C18: a run with a non-empty snapshot has not fetched before its fetch
\* step and has fetched exactly once from then on; no transmission
\* precedes the fetch, every transmission got the list the fetch returned,
\* and every row of the run, staged or committed, carries its length.
C18_OneFetchShared ==
  /\ job.pc \in {"idle", "fetch"} => (job.fetches = 0 /\ job.outbox = <<>>)
  /\ job.pc \in {"loop", "commit"} => job.fetches = 1
  /\ (job.pc = "done" /\ job.users # <<>>) => job.fetches = 1
  /\ \A k \in 1..Len(job.outbox) : job.outbox[k].articles = job.news_articles
  /\ \A n \in 1..Len(job.new_logs) :
       job.new_logs[n].articles_count = Len(job.news_articles)
  /\ (job.pc = "done" /\ job.committed = "yes") =>
       \A n \in (job.log_base + 1)..Len(email_logs) :
         email_logs[n].articles_count = Len(job.news_articles)

\* a run of two subscribers has committed: one fetch, the provider's two
\* articles sent to both, two rows with articles_count 2
C18_Witness ==
  /\ job.pc = "done"
  /\ job.committed = "yes"
  /\ job.fetches = 1
  /\ Len(job.news_articles) = 2
  /\ Len(job.outbox) = 2
  /\ job.outbox[1].articles = job.outbox[2].articles
  /\ RowsCreated = 2
  /\ \A n \in 1..Len(email_logs) : email_logs[n].articles_count = 2

\* C19: no transmission, of the scheduled run or of the manual trigger,
\* carries an empty article list; a scheduled run whose fetch returned the
\* empty list has ended with no transmission, no staged row, no staged
\* last_email_sent and no commit.
C19_NoEmptyDigest ==
  /\ \A k \in 1..Len(job.outbox) : job.outbox[k].articles # <<>>
  /\ \A k \in 1..Len(manual.outbox) : manual.outbox[k].articles # <<>>
  /\ (job.fetches = 1 /\ job.news_articles = <<>>) =>
       /\ job.pc = "done"
       /\ job.outbox = <<>>
       /\ job.new_logs = <<>>
       /\ job.dirty = <<>>
       /\ job.committed = "no"
       /\ RowsCreated = 0

\* a run with two snapshotted subscribers whose fetch returned no article
C19_Witness ==
  /\ job.pc = "done"
  /\ Len(job.users) = 2
  /\ job.fetches = 1
  /\ job.news_articles = <<>>
  /\ job.outbox = <<>>

\* C20: after every step no two rows of the subscriber table have the same
\* address and every stored address is in normal form (lower case, no
\* surrounding blanks); a subscribe request that reaches its insert after
\* another request has inserted the same address ends without changing
\* the table.
C20_OneRowPerAddress ==
  [][ /\ \A a, b \in 1..Len(users') : a # b => users'[a].email # users'[b].email
      /\ \A a \in 1..Len(users') : users'[a].email = lower(strip(users'[a].email))
      /\ \A r \in DOMAIN req :
           (req[r].pc = "insert" /\ req'[r].pc = "idle" /\ FindUser(users, req[r].email) # 0)
             => users' = users ]_vars

\* two requests passed the existence check for the same new address, one
\* has inserted it and the other is about to insert
C20_Witness ==
  \E r \in DOMAIN req :
    /\ req[r].pc = "insert"
    /\ FindUser(users, req[r].email) # 0

\* C21: no step deletes a subscriber row or changes its address; a row is
\* created only by the commit of a subscribe request for a valid address
\* that has no row, and is created active; a subscribe request that
\* commits leaves its address active; a step of no subscribe request that
\* changes the table is an unsubscription, which makes one active row
\* inactive and changes nothing else; the part of a subscribe request up
\* to its existence check (where an empty, invalid or already active
\* address ends the request) leaves the table unchanged.
C21_Lifecycle ==
  [][ /\ Len(users') >= Len(users)
      /\ \A k \in 1..Len(users) : users'[k].email = users[k].email
      /\ Len(users') > Len(users) =>
           /\ Len(users') = Len(users) + 1
           /\ \E r \in DOMAIN req :
                /\ req[r].pc = "insert"
                /\ req'[r].pc = "idle"
                /\ validate_email(req[r].email)
                /\ FindUser(users, req[r].email) = 0
                /\ users'[Len(users')].email = req[r].email
                /\ users'[Len(users')].is_active
      /\ \A r \in DOMAIN req :
           (req[r].pc \in {"reactivate", "insert"} /\ req'[r].pc = "idle" /\ users' # users) =>
             users'[FindUser(users', req[r].email)].is_active
      /\ \A r \in DOMAIN req : (req[r].pc = "idle" /\ req'[r] # req[r]) => users' = users
      /\ (req' = req /\ users' # users) =>
           \E id \in 1..Len(users) :
             /\ users[id].is_active
             /\ users' = [users EXCEPT ![id].is_active = FALSE] ]_vars

\* the first address was subscribed before the second, unsubscribed,
\* re-subscribed at time 2 and unsubscribed again: its row is still there
C21_Witness ==
  /\ Len(users) = 2
  /\ users[2].date_subscribed = 1
  /\ users[1].date_subscribed = 2
  /\ ~users[1].is_active
  /\ users[2].is_active

\* C22: when the loop of a run is over, every snapshotted subscriber has
\* been counted once, in successful_sends or in failed_sends, and the run
\* has staged a last_email_sent for a subscriber exactly when it has
\* staged a row with status sent for it.
C22_BookkeepingConsistent ==
  (job.pc \in {"commit", "done"} /\ job.users # <<>> /\ job.news_articles # <<>>) =>
    /\ job.successful_sends + job.failed_sends = Len(job.users)
    /\ \A k \in 1..Len(job.users) :
         (\E d \in 1..Len(job.dirty) : job.dirty[d].id = job.users[k].id)
           <=> (\E n \in PendingRowsOf(job.users[k].id) : job.new_logs[n].status = "sent")

\* C23: a step of the run other than its commit leaves the subscriber
\* table as it is; the commit creates and deletes no row, leaves email,
\* is_active and date_subscribed of every row as they are in the store at
\* that moment, and changes last_email_sent only of snapshotted
\* subscribers.
C23_RunFrame ==
  [][ /\ (job' # job /\ ~(job.pc = "commit" /\ job'.pc = "done")) => users' = users
      /\ (job.pc = "commit" /\ job'.pc = "done") =>
           /\ Len(users') = Len(users)
           /\ \A id \in 1..Len(users) :
                /\ users'[id].email = users[id].email
                /\ users'[id].is_active = users[id].is_active
                /\ users'[id].date_subscribed = users[id].date_subscribed
                /\ users'[id].last_email_sent # users[id].last_email_sent =>
                     \E k \in 1..Len(job.users) : job.users[k].id = id ]_vars

\* the loop of a run is over and its commit is due: it has staged a
\* last_email_sent for a subscriber who unsubscribed while the run was in
\* progress
C23_Witness ==
  /\ job.pc = "commit"
  /\ \E d \in 1..Len(job.dirty) :
       /\ ~users[job.dirty[d].id].is_active
       /\ users[job.dirty[d].id].last_email_sent = Null

====
